---- MODULE Spec2Model ----
(***************************************************************************)
(* Joystick task: the trial execution engine of adaptation_main.py and of  *)
(* stop-signal_pilot.py.                                                   *)
(*                                                                         *)
(* Units.  Times are integers in milliseconds (ssd = .2 is 200, the        *)
(* staircase step .05 is 50); the SSD is therefore exact, where the        *)
(* scripts accumulate it in binary floating point.  Device readings are    *)
(* integer ticks, DeviceRes ticks to one device unit, so that a reading of *)
(* d ticks scaled by `scaling` lies at d * scaling / DeviceRes degrees.    *)
(* Positions are points <<a, b>> of the hexagonal lattice spanned by the   *)
(* unit vectors at 0 and 60 degrees: angles are counted in units of the    *)
(* perturbation angle (60 degrees), and a rotation by the perturbation     *)
(* maps the lattice onto itself exactly.  The experiment clock counts      *)
(* frame periods: every win.flip() advances it by one, and a timed wait by  *)
(* the whole periods it lasts.                                             *)
(***************************************************************************)
EXTENDS Integers, Sequences, FiniteSets

(* ------------------------------------------------------------------ *)
(* Program constants                                                   *)
(* ------------------------------------------------------------------ *)
NO_PERTURBATION_TRIAL == 80
ADAPTATION_PHASE_START == 80
ADAPTATION_PHASE_END == 230
\* radians(60), in units of 60 degrees
PERTURBATION_ANGLE == 1
\* stop-signal_pilot.py settings
scaling == 12
starting_radius == 1
hidden_radius == 10
ssd_step == 50
\* target directions: np.arange(5), int(Ntrial/5)
NDirections == 5

(* ------------------------------------------------------------------ *)
(* Bounds of the model                                                 *)
(* ------------------------------------------------------------------ *)
\* trials of a session (Ntrial, settings["n_trial"]) and stop trials among them
Ntrial == 3
stop_trial == 2
\* measured frame rate (Hz) and the phase times (ms), scaled down
FrameRate == 20
fix_time == 75
ready_time == 50
go_time == 100
post_go_time == 90
\* initial stop-signal delay (ms), scaled down with the Go phase
ssd_init == 50
\* frames the centering gates of a session may be kept waiting, all together
MaxGateWait == 1
\* latest clock reading at which run_phase is called directly
MaxClockAtCall == 1
\* ITI_bounds (ms), scaled down: the inter-trial interval is drawn between them
ITI_lo == 50
ITI_hi == 75
\* ticks of the device per device unit
DeviceRes == 24
\* largest trial index handed to determine_experiment_phase directly
MaxTrialIndex == 232
\* largest value tried for each of the three phase boundaries
MaxBoundary == 3
\* largest number of trials tried for the list of target angles
MaxSettingTrials == 6

(* ------------------------------------------------------------------ *)
(* Pure helpers                                                        *)
(* ------------------------------------------------------------------ *)
\* Python int() of the quotient n / d (d > 0): truncation toward zero
IntDiv(n, d) == IF n >= 0 THEN n \div d ELSE -((-n) \div d)

\* int(framerate_r * duration), duration in ms
PhaseFrames(duration) == IntDiv(FrameRate * duration, 1000)

\* np.random.uniform(ITI_bounds[0], ITI_bounds[1]): the ends of the interval
ITI_times == {ITI_lo, ITI_hi}

\* ITI.start(ITI_time) ... ITI.complete(): the whole frame periods waited
ITIPeriods(ITI_time) == IntDiv(FrameRate * ITI_time, 1000)

\* int(framerate_r * ssd)
StopFrame(s) == IntDiv(FrameRate * s, 1000)

\* the six lattice directions, 60 degrees apart
RayDir(k) ==
  CASE k = 0 -> <<1, 0>>
    [] k = 1 -> <<0, 1>>
    [] k = 2 -> <<-1, 1>>
    [] k = 3 -> <<-1, 0>>
    [] k = 4 -> <<0, -1>>
    [] OTHER -> <<1, -1>>

\* ct.pol2cart(theta, radius): the point at distance radius on ray theta
pol2cart(theta, radius) ==
  <<radius * RayDir(theta % 6)[1], radius * RayDir(theta % 6)[2]>>

\* ct.cart2pol(x, y): <<theta, radius>> of a point on one of the six rays
cart2pol(p) ==
  CASE p[2] = 0 /\ p[1] >= 0 -> <<0, p[1]>>
    [] p[1] = 0 /\ p[2] > 0 -> <<1, p[2]>>
    [] p[1] < 0 /\ p[2] = -p[1] -> <<2, p[2]>>
    [] p[2] = 0 /\ p[1] < 0 -> <<3, -p[1]>>
    [] p[1] = 0 /\ p[2] < 0 -> <<4, -p[2]>>
    [] OTHER -> <<5, p[1]>>

\* x *= scaling; y *= scaling
Scaled(p) == <<p[1] * scaling, p[2] * scaling>>

\* radius of a scaled reading, in ticks (DeviceRes ticks to the degree)
Radius(p) == cart2pol(Scaled(p))[2]

\* radius < starting_radius
InsideStart(radius) == radius < starting_radius * DeviceRes

\* radius < hidden_radius * .9
BelowHidden(radius) == radius * 10 < hidden_radius * 9 * DeviceRes

\* what the device can report in a frame: (getX(), -getY()) in ticks.
\* 1 tick on ray 0 is 0.5 deg, 2 ticks 1 deg (the starting radius itself),
\* 18 ticks on ray 1 is 9 deg (0.9 * hidden_radius itself).
DeviceReadings == {<<1, 0>>, <<2, 0>>, <<0, 18>>}

(* ------------------------------------------------------------------ *)
(* Experiment phase scheduler (adaptation_main.py)                     *)
(* ------------------------------------------------------------------ *)
\* (mutation of PhaseRule: the last adaptation trial left out)
PhaseRuleOpenEnd(t, noPert, adaptStart, adaptEnd) ==
  IF t < noPert THEN "NO_PERTURBATION"
  ELSE IF adaptStart <= t /\ t < adaptEnd THEN "ADAPTATION"
  ELSE "AFTER_EFFECT"

\* (mutation of PhaseRule: every trial before the adaptation start is taken
\* as unperturbed baseline)
PhaseRuleNoGap(t, noPert, adaptStart, adaptEnd) ==
  IF t < adaptStart THEN "NO_PERTURBATION"
  ELSE IF t <= adaptEnd THEN "ADAPTATION"
  ELSE "AFTER_EFFECT"

\* the piecewise rule of determine_experiment_phase, boundaries as parameters
PhaseRule(t, noPert, adaptStart, adaptEnd) ==
  IF t < noPert THEN "NO_PERTURBATION"
  ELSE IF adaptStart <= t /\ t <= adaptEnd THEN "ADAPTATION"
  ELSE "AFTER_EFFECT"

determine_experiment_phase(t) ==
  PhaseRule(t, NO_PERTURBATION_TRIAL, ADAPTATION_PHASE_START, ADAPTATION_PHASE_END)

\* run(): the perturbation of a trial from its experiment phase
PerturbationOf(phase) ==
  IF phase = "NO_PERTURBATION" THEN 0
  ELSE IF phase = "ADAPTATION" THEN PERTURBATION_ANGLE
  ELSE 0

(* ------------------------------------------------------------------ *)
(* Phase runner pieces                                                 *)
(* ------------------------------------------------------------------ *)
Phases == <<"fixation", "ready", "go", "post_go">>
PhaseNames == {"fixation", "ready", "go", "post_go"}

\* the duration each call site of run_phase passes
SiteDuration(s) ==
  CASE s = "fixation" -> fix_time
    [] s = "ready" -> ready_time
    [] s = "go" -> go_time
    [] OTHER -> post_go_time

\* the go_phase argument each call site passes (True at the Go call only)
SiteGoPhase(s) == s = "go"

\* run_phase returns (onset, x_tmp, y_tmp, t_tmp, tmp_start, tmp_full)
ReturnArity == 6

\* the number of names each call site of execute_trial unpacks the result into
UnpackArity(s) == IF s = "go" THEN 6 ELSE 4

\* execute_trial and save_trial_data read self.setup.angle_list, an attribute
\* ExperimentSetup never defines (the list is an attribute of the runner)
SetupHasAngleList == FALSE

\* (mutation of RecordedSample: the sample taken after the perturbation is
\* added to the angle)
RecordedFeedback(p, pert) == pol2cart(cart2pol(p)[1] + pert, cart2pol(p)[2])

\* the sample appended to the trace for a device reading p: the raw reading
RecordedSample(p, pert) == p

\* the cursor position displayed for a device reading p under perturbation pert
FeedbackPos(p, pert) ==
  pol2cart(cart2pol(Scaled(p))[1] + pert, cart2pol(Scaled(p))[2])

\* (mutation of StartAfter: a radius equal to the starting radius still counts
\* as at rest)
StartAfterLate(flag, radius) ==
  IF radius <= starting_radius * DeviceRes THEN flag
  ELSE IF BelowHidden(radius) THEN 1
  ELSE flag

\* the Go-phase movement evaluation of one frame: the flags after it
StartAfter(flag, radius) ==
  IF InsideStart(radius) THEN flag
  ELSE IF BelowHidden(radius) THEN 1
  ELSE flag

\* (mutation of FullAfter: the flag follows the current frame only)
FullAfterLatest(flag, radius) ==
  IF InsideStart(radius) THEN 0
  ELSE IF BelowHidden(radius) THEN 0
  ELSE 1

FullAfter(flag, radius) ==
  IF InsideStart(radius) THEN flag
  ELSE IF BelowHidden(radius) THEN flag
  ELSE 1

\* (mutation of GoDrawsCursor: the cursor is drawn in the transitional zone too)
GoDrawsCursorAlways(radius) == radius >= 0

\* whether the Go phase draws the cursor in a frame with this radius
GoDrawsCursor(radius) == InsideStart(radius) \/ ~BelowHidden(radius)

(* ------------------------------------------------------------------ *)
(* Staircase (stop-signal_pilot.py)                                    *)
(* ------------------------------------------------------------------ *)
\* (mutation of StaircaseUpdate: the delay floored at zero)
StaircaseFloored(s, go, full) ==
  IF go = 0
  THEN (IF full # 0 THEN (IF s - ssd_step < 0 THEN 0 ELSE s - ssd_step) ELSE s + ssd_step)
  ELSE s

\* the SSD after a trial with label go (0: stop trial) that ended with full
StaircaseUpdate(s, go, full) ==
  IF go = 0 THEN (IF full # 0 THEN s - ssd_step ELSE s + ssd_step) ELSE s

\* whether a Go frame switches the target to the stop appearance
StopCueNow(frame, s, go) == frame = StopFrame(s) /\ go = 0

\* [1]*(Ntrial-stop_trial) + [0]*stop_trial
GoListUnshuffled ==
  [i \in 1..((IF Ntrial > stop_trial THEN Ntrial - stop_trial ELSE 0) + stop_trial) |->
     IF i <= Ntrial - stop_trial THEN 1 ELSE 0]

\* the orders rnd.shuffle can leave a list of n entries in
Shuffles(n) == {pi \in [1..n -> 1..n] : \A i, j \in 1..n : pi[i] = pi[j] => i = j}

\* (mutation of GoLists: the label of each trial drawn on its own)
GoListsIndependent == [1..Ntrial -> {0, 1}]

\* every go_list the shuffle can produce
GoLists ==
  {[i \in 1..Len(GoListUnshuffled) |-> GoListUnshuffled[pi[i]]] :
     pi \in Shuffles(Len(GoListUnshuffled))}

\* [radians(target_angle * i) for i in np.arange(5)] * int(n_trial / 5): entry
\* i stands for the angle target_angle * i
generate_angle_list(n) ==
  [k \in 1..(NDirections * IntDiv(n, NDirections)) |-> (k - 1) % NDirections]

\* rnd.shuffle(angle_list): every order the list for n trials can be left in
AngleLists(n) ==
  {[i \in 1..Len(generate_angle_list(n)) |-> generate_angle_list(n)[pi[i]]] :
     pi \in Shuffles(Len(generate_angle_list(n)))}

\* The sessions modelled below are those of a trial count that is a multiple
\* of NDirections, as in the script (310), scaled down: the target of their Go
\* phase is at "hidden", the hidden radius in the direction of the trial.

(* ------------------------------------------------------------------ *)
(* State                                                               *)
(* ------------------------------------------------------------------ *)
VARIABLES
  entry,          \* which program runs: "adaptation", "stop_signal", or "unit"
                  \* (the methods of ExperimentRunner called on their own)
  pc,             \* position in the program
  keys,           \* whether a 'q' key press waits in the event buffer
  trial,          \* index of the session loop
  frameN,         \* frame index of the running phase loop
  gate_wait,      \* frames the centering gates of the session have waited
  current_phase,  \* adaptation: result of determine_experiment_phase
  perturbation,   \* adaptation: perturbation of the trial
  site,           \* adaptation: phase_name of the running run_phase call
  go_phase,       \* adaptation: go_phase argument of the running call
  x_tmp, y_tmp,   \* adaptation: samples collected by the running call
  t_tmp,          \* adaptation: their timestamps
  exp_phase_onset, \* adaptation: clock reading at the start of the running call
  tmp_start, tmp_full, \* adaptation: flags of the running call
  ssd,            \* stop-signal: stop-signal delay (ms)
  go_list,        \* stop-signal: shuffled go/stop labels, 1-based
  x_trial, y_trial,    \* trace of the trial
  t_trial,        \* timestamps of the trace
  clock,          \* exp_clock.getTime(), in frame periods
  onset,          \* exp_fix_onset, exp_ready_onset, exp_go_onset,
                  \* exp_post_go_onset and exp_iti_onset of the trial
  start_mov, full_mov, \* movement flags of the trial
  target,         \* appearance of the target stimulus
  cursor_pos,     \* position of the cursor stimulus
  drawn,          \* stimuli drawn in the frame committed last
  data,           \* rows of the trial table
  csv_rows,       \* rows of the table file as last written
  joy_files,      \* trace files written: trial index -> number of samples
  ret,            \* unit: what the last direct call returned
  \* history of the run, read by the properties only
  gate_seen,      \* scaled radius the gate of this trial polled last (-1: none yet)
  frames_run,     \* frames committed in each phase of this trial
  go_display,     \* line colour of the target in each Go frame of this trial
  dev_log,        \* device readings taken in this trial (or direct call)
  log             \* session events: <<event, trial index>>

ctl == <<entry, pc, keys, trial, frameN, gate_wait>>
adapt == <<current_phase, perturbation, site, go_phase, x_tmp, y_tmp, t_tmp,
           exp_phase_onset, tmp_start, tmp_full>>
stair == <<ssd, go_list>>
trace == <<x_trial, y_trial, t_trial>>
time == <<clock, onset>>
flags == <<start_mov, full_mov>>
display == <<target, cursor_pos, drawn>>
persist == <<data, csv_rows, joy_files>>
hist == <<gate_seen, frames_run, go_display, dev_log, log>>
vars == <<ctl, adapt, stair, trace, time, flags, display, persist, ret, hist>>

NoFrames == [p \in PhaseNames |-> 0]
OnsetNames == PhaseNames \cup {"iti"}
NoRet == [op |-> "none", arg |-> 0, val |-> <<>>]

\* target = visual.Circle(win, r, fillColor=None, lineColor="white"), at the origin
InitTarget == [fillColor |-> "none", lineColor |-> "white", pos |-> "origin"]

Init ==
  /\ entry \in {"adaptation", "stop_signal", "unit"}
  /\ pc = IF entry = "unit" THEN "idle" ELSE "loop"
  /\ keys = FALSE
  /\ trial = 0
  /\ frameN = 0
  /\ gate_wait = 0
  /\ current_phase = "none"
  /\ perturbation = 0
  /\ site = "none"
  /\ go_phase = FALSE
  /\ x_tmp = <<>>
  /\ y_tmp = <<>>
  /\ t_tmp = <<>>
  /\ exp_phase_onset = 0
  /\ tmp_start = 0
  /\ tmp_full = 0
  /\ ssd = ssd_init
  /\ go_list \in (IF entry = "stop_signal" THEN GoLists ELSE {<<>>})
  /\ x_trial = <<>>
  /\ y_trial = <<>>
  /\ t_trial = <<>>
  /\ clock = 0
  /\ onset = [p \in OnsetNames |-> 0]
  /\ start_mov = 0
  /\ full_mov = 0
  /\ target = InitTarget
  /\ cursor_pos = <<0, 0>>
  /\ drawn = {}
  /\ data = <<>>
  /\ csv_rows = <<>>
  /\ joy_files = <<>>
  /\ ret = NoRet
  /\ gate_seen = -1
  /\ frames_run = NoFrames
  /\ go_display = <<>>
  /\ dev_log = <<>>
  /\ log = <<>>

(* ------------------------------------------------------------------ *)
(* Environment                                                         *)
(* ------------------------------------------------------------------ *)
Running == entry # "unit" /\ pc \notin {"done", "crashed"}

\* the operator presses 'q' at any moment of a running session
KeyPress ==
  /\ Running
  /\ ~keys
  /\ keys' = TRUE
  /\ UNCHANGED <<entry, pc, trial, frameN, gate_wait, adapt, stair, trace, time, flags,
                 display, persist, ret, hist>>

(* ------------------------------------------------------------------ *)
(* stop-signal_pilot.py: the trial loop                                *)
(* ------------------------------------------------------------------ *)
\* the label of the running trial (go_list[trial], 0-based in the script)
Label == go_list[trial + 1]

\* for trial in np.arange(Ntrial): abort check, target.draw(), win.flip()
S_LoopHead ==
  /\ entry = "stop_signal" /\ pc = "loop"
  /\ IF trial >= Ntrial
     THEN /\ pc' = "teardown"
          /\ UNCHANGED <<keys, clock, drawn, hist>>
     ELSE /\ keys' = FALSE
          /\ IF keys
             THEN /\ pc' = "teardown"
                  /\ log' = Append(log, <<"check", trial>>)
                  /\ UNCHANGED <<clock, drawn, gate_seen, frames_run, go_display, dev_log>>
             ELSE /\ pc' = "gate"
                  /\ drawn' = {"target"}
                  /\ clock' = clock + 1
                  /\ gate_seen' = -1
                  /\ frames_run' = NoFrames
                  /\ go_display' = <<>>
                  /\ log' = Append(Append(log, <<"check", trial>>), <<"trial", trial>>)
                  /\ UNCHANGED dev_log
  /\ UNCHANGED <<entry, trial, frameN, gate_wait, adapt, stair, trace, onset, flags,
                 target, cursor_pos, persist, ret>>

\* (mutation of S_Gate: the reading that passes the gate is kept as the first
\* sample of the trace)
S_GateSampleKept ==
  /\ entry = "stop_signal" /\ pc = "gate"
  /\ \E p \in DeviceReadings :
       IF ~InsideStart(Radius(p))
       THEN /\ gate_wait < MaxGateWait
            /\ gate_wait' = gate_wait + 1
            /\ drawn' = {"text"}
            /\ gate_seen' = Radius(p)
            /\ clock' = clock + 1
            /\ UNCHANGED <<pc, frameN, trace, onset, flags, target, dev_log>>
       ELSE /\ pc' = "fixation"
            /\ frameN' = 0
            /\ x_trial' = <<RecordedSample(p, 0)[1]>>
            /\ y_trial' = <<RecordedSample(p, 0)[2]>>
            /\ t_trial' = <<clock>>
            /\ onset' = [onset EXCEPT !["fixation"] = clock]
            /\ start_mov' = 0
            /\ full_mov' = 0
            /\ target' = [target EXCEPT !.fillColor = "none", !.pos = "origin"]
            /\ gate_seen' = Radius(p)
            /\ dev_log' = <<>>
            /\ UNCHANGED <<gate_wait, clock, drawn>>
  /\ UNCHANGED <<entry, keys, trial, adapt, stair, cursor_pos, persist, ret,
                 frames_run, go_display, log>>

\* while True: one poll of the centering gate; on leaving it, the resets and
\* the fixation set-up that follow
S_Gate ==
  /\ entry = "stop_signal" /\ pc = "gate"
  /\ \E p \in DeviceReadings :
       IF ~InsideStart(Radius(p))
       THEN /\ gate_wait < MaxGateWait
            /\ gate_wait' = gate_wait + 1
            /\ drawn' = {"text"}
            /\ gate_seen' = Radius(p)
            /\ clock' = clock + 1
            /\ UNCHANGED <<pc, frameN, trace, onset, flags, target, dev_log>>
       ELSE /\ pc' = "fixation"
            /\ frameN' = 0
            /\ x_trial' = <<>>
            /\ y_trial' = <<>>
            /\ t_trial' = <<>>
            /\ onset' = [onset EXCEPT !["fixation"] = clock]
            /\ start_mov' = 0
            /\ full_mov' = 0
            /\ target' = [target EXCEPT !.fillColor = "none", !.pos = "origin"]
            /\ gate_seen' = Radius(p)
            /\ dev_log' = <<>>
            /\ UNCHANGED <<gate_wait, clock, drawn>>
  /\ UNCHANGED <<entry, keys, trial, adapt, stair, cursor_pos, persist, ret,
                 frames_run, go_display, log>>

\* one frame of a phase loop without movement evaluation
S_PlainFrame(phase, duration, stim) ==
  /\ entry = "stop_signal" /\ pc = phase
  /\ frameN < PhaseFrames(duration)
  /\ \E p \in DeviceReadings :
       /\ x_trial' = Append(x_trial, RecordedSample(p, 0)[1])
       /\ y_trial' = Append(y_trial, RecordedSample(p, 0)[2])
       /\ cursor_pos' = FeedbackPos(p, 0)
       /\ dev_log' = Append(dev_log, p)
  /\ t_trial' = Append(t_trial, clock)
  /\ drawn' = {stim}
  /\ clock' = clock + 1
  /\ frameN' = frameN + 1
  /\ frames_run' = [frames_run EXCEPT ![phase] = @ + 1]
  /\ UNCHANGED <<entry, pc, keys, trial, gate_wait, adapt, stair, onset, flags, target,
                 persist, ret, gate_seen, go_display, log>>

S_FixationFrame == S_PlainFrame("fixation", fix_time, "target")

S_ReadyFrame == S_PlainFrame("ready", ready_time, "cursor")

S_PostGoFrame == S_PlainFrame("post_go", post_go_time, "target")

\* (mutation of S_Cue: the loop before it is left one frame early)
S_CueEarly(from, duration, to, tgt) ==
  /\ entry = "stop_signal" /\ pc = from
  /\ frameN + 1 >= PhaseFrames(duration)
  /\ pc' = to
  /\ frameN' = 0
  /\ target' = tgt
  /\ onset' = [onset EXCEPT ![to] = clock]
  /\ UNCHANGED <<entry, keys, trial, gate_wait, adapt, stair, trace, clock, flags,
                 cursor_pos, drawn, persist, ret, hist>>

\* the statements between two phase loops
S_Cue(from, duration, to, tgt) ==
  /\ entry = "stop_signal" /\ pc = from
  /\ frameN >= PhaseFrames(duration)
  /\ pc' = to
  /\ frameN' = 0
  /\ target' = tgt
  /\ onset' = [onset EXCEPT ![to] = clock]
  /\ UNCHANGED <<entry, keys, trial, gate_wait, adapt, stair, trace, clock, flags,
                 cursor_pos, drawn, persist, ret, hist>>

S_ReadyCue == S_Cue("fixation", fix_time, "ready", target)

S_GoCue ==
  S_Cue("ready", ready_time, "go",
        [fillColor |-> "green", lineColor |-> "green", pos |-> "hidden"])

\* (mutation of S_PostGoCue: the line colour is left as the Go phase had it)
S_PostGoCueKeepsLine ==
  S_Cue("go", go_time, "post_go", [target EXCEPT !.fillColor = "none", !.pos = "origin"])

S_PostGoCue ==
  S_Cue("go", go_time, "post_go",
        [fillColor |-> "none", lineColor |-> "white", pos |-> "origin"])

\* (mutation of S_GoFrame: no movement evaluation once the stop cue is shown)
S_GoFrameCueHalts ==
  /\ entry = "stop_signal" /\ pc = "go"
  /\ frameN < PhaseFrames(go_time)
  /\ target' = IF StopCueNow(frameN, ssd, Label)
               THEN [target EXCEPT !.fillColor = "red", !.lineColor = "red"]
               ELSE target
  /\ \E p \in DeviceReadings :
       /\ x_trial' = Append(x_trial, RecordedSample(p, 0)[1])
       /\ y_trial' = Append(y_trial, RecordedSample(p, 0)[2])
       /\ cursor_pos' = FeedbackPos(p, 0)
       /\ start_mov' = IF target'.lineColor = "red" THEN start_mov
                       ELSE StartAfter(start_mov, Radius(p))
       /\ full_mov' = IF target'.lineColor = "red" THEN full_mov
                      ELSE FullAfter(full_mov, Radius(p))
       /\ drawn' = IF GoDrawsCursor(Radius(p)) THEN {"target", "cursor"} ELSE {"target"}
       /\ dev_log' = Append(dev_log, p)
  /\ t_trial' = Append(t_trial, clock)
  /\ clock' = clock + 1
  /\ frameN' = frameN + 1
  /\ frames_run' = [frames_run EXCEPT !["go"] = @ + 1]
  /\ go_display' = Append(go_display, target'.lineColor)
  /\ UNCHANGED <<entry, pc, keys, trial, gate_wait, adapt, stair, onset, persist, ret,
                 gate_seen, log>>

\* one frame of the Go loop
S_GoFrame ==
  /\ entry = "stop_signal" /\ pc = "go"
  /\ frameN < PhaseFrames(go_time)
  /\ target' = IF StopCueNow(frameN, ssd, Label)
               THEN [target EXCEPT !.fillColor = "red", !.lineColor = "red"]
               ELSE target
  /\ \E p \in DeviceReadings :
       /\ x_trial' = Append(x_trial, RecordedSample(p, 0)[1])
       /\ y_trial' = Append(y_trial, RecordedSample(p, 0)[2])
       /\ cursor_pos' = FeedbackPos(p, 0)
       /\ start_mov' = StartAfter(start_mov, Radius(p))
       /\ full_mov' = FullAfter(full_mov, Radius(p))
       /\ drawn' = IF GoDrawsCursor(Radius(p)) THEN {"target", "cursor"} ELSE {"target"}
       /\ dev_log' = Append(dev_log, p)
  /\ t_trial' = Append(t_trial, clock)
  /\ clock' = clock + 1
  /\ frameN' = frameN + 1
  /\ frames_run' = [frames_run EXCEPT !["go"] = @ + 1]
  /\ go_display' = Append(go_display, target'.lineColor)
  /\ UNCHANGED <<entry, pc, keys, trial, gate_wait, adapt, stair, onset, persist, ret,
                 gate_seen, log>>

\* #ITI: exp_iti_onset; target.draw(); win.flip(); ITI.start(ITI_time)
S_ITI ==
  /\ entry = "stop_signal" /\ pc = "post_go"
  /\ frameN >= PhaseFrames(post_go_time)
  /\ pc' = "save"
  /\ onset' = [onset EXCEPT !["iti"] = clock]
  /\ drawn' = {"target"}
  /\ clock' = clock + 1
  /\ log' = Append(log, <<"iti", trial>>)
  /\ UNCHANGED <<entry, keys, trial, frameN, gate_wait, adapt, stair, trace, flags,
                 target, cursor_pos, persist, ret, gate_seen, frames_run, go_display, dev_log>>

\* (mutation of S_Row: the SSD column filled after the staircase update)
S_RowUpdatedSSD ==
  [trial |-> trial,
   fix_dur |-> onset["ready"] - onset["fixation"],
   ready_dur |-> onset["go"] - onset["ready"],
   go_dur |-> onset["post_go"] - onset["go"],
   post_go_dur |-> onset["iti"] - onset["post_go"],
   SSD |-> StaircaseUpdate(ssd, Label, full_mov), go |-> Label,
   start_mov |-> start_mov, full_mov |-> full_mov]

\* the row of the trial (the columns but ID, ITI_dur and target_angle)
S_Row ==
  [trial |-> trial,
   fix_dur |-> onset["ready"] - onset["fixation"],
   ready_dur |-> onset["go"] - onset["ready"],
   go_dur |-> onset["post_go"] - onset["go"],
   post_go_dur |-> onset["iti"] - onset["post_go"],
   SSD |-> ssd, go |-> Label, start_mov |-> start_mov, full_mov |-> full_mov]

\* (mutation of S_Save: the row is kept in memory, the files are written later)
S_SaveBuffered ==
  /\ entry = "stop_signal" /\ pc = "save"
  /\ data' = Append(data, S_Row)
  /\ pc' = "staircase"
  /\ log' = Append(log, <<"save", trial>>)
  /\ UNCHANGED <<entry, keys, trial, frameN, gate_wait, adapt, stair, trace, time, flags,
                 display, csv_rows, joy_files, ret, gate_seen, frames_run, go_display,
                 dev_log>>

\* operations during ITI: the row, the table file, the trace file
S_Save ==
  /\ entry = "stop_signal" /\ pc = "save"
  /\ data' = Append(data, S_Row)
  /\ csv_rows' = data'
  /\ joy_files' = [t \in DOMAIN joy_files \cup {trial} |->
                     IF t = trial THEN Len(x_trial) ELSE joy_files[t]]
  /\ pc' = "staircase"
  /\ log' = Append(log, <<"save", trial>>)
  /\ UNCHANGED <<entry, keys, trial, frameN, gate_wait, adapt, stair, trace, time, flags,
                 display, ret, gate_seen, frames_run, go_display, dev_log>>

\* increase or reduce ssd; ITI.complete(); next index of the loop
S_Staircase ==
  /\ entry = "stop_signal" /\ pc = "staircase"
  /\ ssd' = StaircaseUpdate(ssd, Label, full_mov)
  /\ \E ITI_time \in ITI_times : clock' = clock + ITIPeriods(ITI_time)
  /\ trial' = trial + 1
  /\ pc' = "loop"
  /\ log' = IF Label = 0 THEN Append(log, <<"staircase", trial>>) ELSE log
  /\ UNCHANGED <<entry, keys, frameN, gate_wait, adapt, go_list, trace, onset, flags,
                 display, persist, ret, gate_seen, frames_run, go_display, dev_log>>

\* win.close(); core.quit()
S_Quit ==
  /\ entry = "stop_signal" /\ pc = "teardown"
  /\ pc' = "done"
  /\ log' = Append(log, <<"teardown", trial>>)
  /\ UNCHANGED <<entry, keys, trial, frameN, gate_wait, adapt, stair, trace, time, flags,
                 display, persist, ret, gate_seen, frames_run, go_display, dev_log>>

StopSignalNext ==
  \/ S_LoopHead \/ S_Gate \/ S_FixationFrame \/ S_ReadyCue \/ S_ReadyFrame
  \/ S_GoCue \/ S_GoFrame \/ S_PostGoCue \/ S_PostGoFrame \/ S_ITI \/ S_Save
  \/ S_Staircase \/ S_Quit

(* ------------------------------------------------------------------ *)
(* adaptation_main.py: ExperimentRunner                                *)
(* ------------------------------------------------------------------ *)
\* run(): loop head, abort check, scheduler; execute_trial up to the gate
A_LoopHead ==
  /\ entry = "adaptation" /\ pc = "loop"
  /\ IF trial >= Ntrial
     THEN /\ pc' = "teardown"
          /\ UNCHANGED <<keys, current_phase, perturbation, trace, clock, flags,
                         drawn, hist>>
     ELSE /\ keys' = FALSE
          /\ IF keys
             THEN /\ pc' = "teardown"
                  /\ log' = Append(log, <<"check", trial>>)
                  /\ UNCHANGED <<current_phase, perturbation, trace, clock,
                                 flags, drawn, gate_seen, frames_run, go_display, dev_log>>
             ELSE /\ current_phase' = determine_experiment_phase(trial)
                  /\ perturbation' = PerturbationOf(current_phase')
                  /\ x_trial' = <<>>
                  /\ y_trial' = <<>>
                  /\ t_trial' = <<>>
                  /\ start_mov' = 0
                  /\ full_mov' = 0
                  /\ drawn' = {"target"}
                  /\ clock' = clock + 1
                  /\ pc' = "gate"
                  /\ gate_seen' = -1
                  /\ frames_run' = NoFrames
                  /\ go_display' = <<>>
                  /\ dev_log' = <<>>
                  /\ log' = Append(Append(log, <<"check", trial>>), <<"trial", trial>>)
  /\ UNCHANGED <<entry, trial, frameN, gate_wait, site, go_phase, x_tmp, y_tmp, t_tmp,
                 exp_phase_onset, tmp_start, tmp_full, stair, onset, target, cursor_pos,
                 persist, ret>>

\* execute_trial: one poll of the centering gate; on leaving it, the fixation
\* properties and the call of run_phase for the fixation
A_Gate ==
  /\ entry = "adaptation" /\ pc = "gate"
  /\ \E p \in DeviceReadings :
       IF ~InsideStart(Radius(p))
       THEN /\ gate_wait < MaxGateWait
            /\ gate_wait' = gate_wait + 1
            /\ drawn' = {"text"}
            /\ gate_seen' = Radius(p)
            /\ clock' = clock + 1
            /\ UNCHANGED <<pc, frameN, site, go_phase, x_tmp, y_tmp, t_tmp, exp_phase_onset,
                           tmp_start, tmp_full, target, dev_log>>
       ELSE /\ target' = [target EXCEPT !.fillColor = "none", !.pos = "origin"]
            /\ pc' = "run_phase"
            /\ site' = "fixation"
            /\ go_phase' = SiteGoPhase("fixation")
            /\ frameN' = 0
            /\ x_tmp' = <<>>
            /\ y_tmp' = <<>>
            /\ t_tmp' = <<>>
            /\ exp_phase_onset' = clock
            /\ tmp_start' = 0
            /\ tmp_full' = 0
            /\ gate_seen' = Radius(p)
            /\ dev_log' = <<>>
            /\ UNCHANGED <<gate_wait, clock, drawn>>
  /\ UNCHANGED <<entry, keys, trial, current_phase, perturbation, stair, trace, onset,
                 flags, cursor_pos, persist, ret, frames_run, go_display, log>>

\* run_phase: one iteration of the frame loop
RunPhaseFrame ==
  /\ entry \in {"adaptation", "unit"} /\ pc = "run_phase"
  /\ frameN < PhaseFrames(SiteDuration(site))
  /\ \E p \in DeviceReadings :
       /\ x_tmp' = Append(x_tmp, RecordedSample(p, perturbation)[1])
       /\ y_tmp' = Append(y_tmp, RecordedSample(p, perturbation)[2])
       /\ cursor_pos' = FeedbackPos(p, perturbation)
       /\ tmp_start' = IF go_phase THEN StartAfter(tmp_start, Radius(p)) ELSE tmp_start
       /\ tmp_full' = IF go_phase THEN FullAfter(tmp_full, Radius(p)) ELSE tmp_full
       /\ drawn' = (IF go_phase /\ GoDrawsCursor(Radius(p)) THEN {"cursor"} ELSE {})
                     \cup (IF site = "ready" THEN {"cursor"} ELSE {"target"})
       /\ dev_log' = Append(dev_log, p)
  /\ t_tmp' = Append(t_tmp, clock)
  /\ clock' = clock + 1
  /\ frameN' = frameN + 1
  /\ frames_run' = [frames_run EXCEPT ![site] = @ + 1]
  /\ go_display' = IF site = "go" THEN Append(go_display, target.lineColor) ELSE go_display
  /\ UNCHANGED <<entry, pc, keys, trial, gate_wait, current_phase, perturbation, site,
                 go_phase, exp_phase_onset, stair, trace, onset, flags, target, persist,
                 ret, gate_seen, log>>

\* the row save_trial_data appends, o the onsets execute_trial hands it
\* (the columns but ID, ITI_dur and target_angle)
A_Row(o) ==
  [trial |-> trial,
   fix_dur |-> o["ready"] - o["fixation"],
   ready_dur |-> o["go"] - o["ready"],
   go_dur |-> o["post_go"] - o["go"],
   post_go_dur |-> o["iti"] - o["post_go"],
   cursor_displacement |-> perturbation, start_mov |-> start_mov, full_mov |-> full_mov]

\* run_phase returns and execute_trial goes on from the call site: it unpacks
\* the result, extends the trace, and runs what follows up to the next call
A_PhaseReturn ==
  /\ entry = "adaptation" /\ pc = "run_phase"
  /\ frameN >= PhaseFrames(SiteDuration(site))
  /\ IF ReturnArity # UnpackArity(site)
     THEN \* ValueError: too many values to unpack
          /\ pc' = "crashed"
          /\ UNCHANGED <<trial, frameN, site, go_phase, x_tmp, y_tmp, t_tmp,
                         exp_phase_onset, tmp_start, tmp_full, trace, time, flags, target,
                         drawn, persist, log>>
     ELSE /\ x_trial' = x_trial \o x_tmp
          /\ y_trial' = y_trial \o y_tmp
          /\ t_trial' = t_trial \o t_tmp
          /\ start_mov' = IF site = "go" THEN start_mov + tmp_start ELSE start_mov
          /\ full_mov' = IF site = "go" THEN full_mov + tmp_full ELSE full_mov
          /\ IF site \in {"fixation", "go"} \/ (site = "ready" /\ SetupHasAngleList)
             THEN \* the next call of run_phase
                  /\ pc' = "run_phase"
                  /\ site' = CASE site = "fixation" -> "ready"
                               [] site = "ready" -> "go"
                               [] OTHER -> "post_go"
                  /\ go_phase' = SiteGoPhase(site')
                  /\ target' =
                       CASE site = "fixation" -> target
                         [] site = "ready" ->
                              [fillColor |-> "green", lineColor |-> "green", pos |-> "hidden"]
                         [] OTHER ->
                              [fillColor |-> "none", lineColor |-> "white", pos |-> "origin"]
                  /\ onset' = [onset EXCEPT ![site] = exp_phase_onset]
                  /\ exp_phase_onset' = clock
                  /\ frameN' = 0
                  /\ x_tmp' = <<>>
                  /\ y_tmp' = <<>>
                  /\ t_tmp' = <<>>
                  /\ tmp_start' = 0
                  /\ tmp_full' = 0
                  /\ UNCHANGED <<trial, clock, drawn, persist, log>>
             ELSE IF site = "post_go" /\ SetupHasAngleList
             THEN \* run_ITI, save_trial_data, save_joystick_data, save_experiment_data
                  /\ drawn' = {"target"}
                  /\ onset' = [onset EXCEPT !["post_go"] = exp_phase_onset,
                                             !["iti"] = clock + 1]
                  /\ \E ITI_time \in ITI_times : clock' = clock + 1 + ITIPeriods(ITI_time)
                  /\ data' = Append(data, A_Row(onset'))
                  /\ csv_rows' = data'
                  /\ joy_files' = [t \in DOMAIN joy_files \cup {trial} |->
                                     IF t = trial THEN Len(x_trial') ELSE joy_files[t]]
                  /\ log' = Append(Append(log, <<"iti", trial>>), <<"save", trial>>)
                  /\ trial' = trial + 1
                  /\ pc' = "loop"
                  /\ UNCHANGED <<frameN, site, go_phase, x_tmp, y_tmp, t_tmp,
                                 exp_phase_onset, tmp_start, tmp_full, target>>
             ELSE \* AttributeError: self.setup.angle_list
                  /\ pc' = "crashed"
                  /\ onset' = [onset EXCEPT ![site] = exp_phase_onset]
                  /\ drawn' = IF site = "post_go" THEN {"target"} ELSE drawn
                  /\ clock' = IF site = "post_go" THEN clock + 1 ELSE clock
                  /\ log' = IF site = "post_go" THEN Append(log, <<"iti", trial>>) ELSE log
                  /\ UNCHANGED <<trial, frameN, site, go_phase, x_tmp, y_tmp, t_tmp,
                                 exp_phase_onset, tmp_start, tmp_full, target, persist>>
  /\ UNCHANGED <<entry, keys, gate_wait, current_phase, perturbation, stair, cursor_pos,
                 ret, gate_seen, frames_run, go_display, dev_log>>

\* self.setup.win.close(); core.quit()
A_Quit ==
  /\ entry = "adaptation" /\ pc = "teardown"
  /\ pc' = "done"
  /\ log' = Append(log, <<"teardown", trial>>)
  /\ UNCHANGED <<entry, keys, trial, frameN, gate_wait, adapt, stair, trace, time, flags,
                 display, persist, ret, gate_seen, frames_run, go_display, dev_log>>

AdaptationNext == A_LoopHead \/ A_Gate \/ A_PhaseReturn \/ A_Quit

(* ------------------------------------------------------------------ *)
(* ExperimentRunner's methods called on their own                      *)
(* ------------------------------------------------------------------ *)
\* A run of direct calls exercises one method: determine_experiment_phase on
\* any trial index, or run_phase with the arguments of the call sites.
\* determine_experiment_phase(t)
U_Classify ==
  /\ entry = "unit" /\ pc = "idle"
  /\ site = "none"
  /\ \E t \in 0..MaxTrialIndex :
       ret' = [op |-> "determine_experiment_phase", arg |-> t,
               val |-> <<determine_experiment_phase(t)>>]
  /\ UNCHANGED <<ctl, adapt, stair, trace, time, flags, display, persist, hist>>

\* determine_experiment_phase(t) with the three module constants set to
\* other values
U_ClassifyWith ==
  /\ entry = "unit" /\ pc = "idle"
  /\ site = "none"
  /\ \E t \in 0..(MaxBoundary + 1), noPert, adaptStart, adaptEnd \in 0..MaxBoundary :
       ret' = [op |-> "PhaseRule", arg |-> <<t, noPert, adaptStart, adaptEnd>>,
               val |-> <<PhaseRule(t, noPert, adaptStart, adaptEnd)>>]
  /\ UNCHANGED <<ctl, adapt, stair, trace, time, flags, display, persist, hist>>

\* run_phase(duration, perturbation, phase_name, go_phase) with the arguments
\* of one of the four call sites of execute_trial
U_CallRunPhase ==
  /\ entry = "unit" /\ pc = "idle"
  /\ ret.op # "determine_experiment_phase"
  /\ \E s \in PhaseNames, pert \in {0, PERTURBATION_ANGLE} :
       /\ site' = s
       /\ go_phase' = SiteGoPhase(s)
       /\ perturbation' = pert
       /\ target' = IF s = "go"
                    THEN [fillColor |-> "green", lineColor |-> "green", pos |-> "hidden"]
                    ELSE InitTarget
  /\ pc' = "run_phase"
  /\ frameN' = 0
  /\ x_tmp' = <<>>
  /\ y_tmp' = <<>>
  /\ t_tmp' = <<>>
  /\ \E now \in 0..MaxClockAtCall : clock' = now /\ exp_phase_onset' = now
  /\ tmp_start' = 0
  /\ tmp_full' = 0
  /\ ret' = NoRet
  /\ frames_run' = NoFrames
  /\ go_display' = <<>>
  /\ dev_log' = <<>>
  /\ UNCHANGED <<entry, keys, trial, gate_wait, current_phase, stair, trace, onset, flags,
                 cursor_pos, drawn, persist, gate_seen, log>>

\* return exp_phase_onset, x_tmp, y_tmp, t_tmp, tmp_start, tmp_full
U_RunPhaseReturn ==
  /\ entry = "unit" /\ pc = "run_phase"
  /\ frameN >= PhaseFrames(SiteDuration(site))
  /\ ret' = [op |-> "run_phase", arg |-> perturbation,
             val |-> <<x_tmp, y_tmp, tmp_start, tmp_full, exp_phase_onset, t_tmp>>]
  /\ pc' = "idle"
  /\ UNCHANGED <<entry, keys, trial, frameN, gate_wait, adapt, stair, trace, time, flags,
                 display, persist, hist>>

\* ExperimentRunner.__init__, before any other method is called:
\* generate_angle_list() and the shuffle, for a setting of n trials
U_AngleList ==
  /\ entry = "unit" /\ pc = "idle"
  /\ site = "none" /\ ret = NoRet
  /\ \E n \in 0..MaxSettingTrials :
       \E list \in AngleLists(n) :
         ret' = [op |-> "generate_angle_list", arg |-> n, val |-> list]
  /\ UNCHANGED <<ctl, adapt, stair, trace, time, flags, display, persist, hist>>

UnitNext ==
  U_Classify \/ U_ClassifyWith \/ U_AngleList \/ U_CallRunPhase \/ U_RunPhaseReturn

Next == KeyPress \/ StopSignalNext \/ AdaptationNext \/ RunPhaseFrame \/ UnitNext

Spec == Init /\ [][Next]_vars

\* Every statement of a running program is executed in the end; the operator
\* is under no obligation to press a key.  A gate is kept waiting MaxGateWait
\* frames at most, so the step of the gate that is taken in the end is the
\* one that leaves it: the device reports a radius inside the start zone.
ProgramStep == StopSignalNext \/ AdaptationNext \/ RunPhaseFrame

FairSpec == Spec /\ WF_vars(ProgramStep)

(* ================================================================== *)
(* Properties                                                          *)
(* ================================================================== *)
\* the values every variable but ret has before any call
Untouched ==
  /\ trial = 0 /\ frameN = 0 /\ gate_wait = 0 /\ ~keys
  /\ current_phase = "none" /\ perturbation = 0 /\ site = "none" /\ ~go_phase
  /\ x_tmp = <<>> /\ y_tmp = <<>> /\ t_tmp = <<>> /\ exp_phase_onset = 0
  /\ tmp_start = 0 /\ tmp_full = 0
  /\ ssd = ssd_init /\ go_list = <<>>
  /\ x_trial = <<>> /\ y_trial = <<>> /\ t_trial = <<>>
  /\ clock = 0 /\ onset = [p \in OnsetNames |-> 0]
  /\ start_mov = 0 /\ full_mov = 0
  /\ target = InitTarget /\ cursor_pos = <<0, 0>> /\ drawn = {}
  /\ data = <<>> /\ csv_rows = <<>> /\ joy_files = <<>>
  /\ gate_seen = -1 /\ frames_run = NoFrames /\ go_display = <<>>
  /\ dev_log = <<>> /\ log = <<>>

\* C1: with the boundaries 80, 80 and 230, determine_experiment_phase(t) is
\* NO_PERTURBATION for t < 80, ADAPTATION for 80 <= t <= 230 and AFTER_EFFECT
\* for t > 230, whatever was called before, and calling it leaves the rest of
\* the state as it was; the session loop stores that same value.
C1_Classify ==
  /\ ret.op = "determine_experiment_phase" =>
       /\ ret.val = << IF ret.arg < 80 THEN "NO_PERTURBATION"
                       ELSE IF ret.arg <= 230 THEN "ADAPTATION"
                       ELSE "AFTER_EFFECT" >>
       /\ Untouched
  /\ (entry = "adaptation" /\ current_phase # "none") =>
       current_phase = (IF trial < 80 THEN "NO_PERTURBATION"
                        ELSE IF trial <= 230 THEN "ADAPTATION"
                        ELSE "AFTER_EFFECT")

C1_Witness ==
  /\ ret.op = "determine_experiment_phase"
  /\ ret.arg = 230
  /\ ret.val = <<"ADAPTATION">>

\* stop trials recorded so far that ended withheld, and that ended moved
Withheld == Cardinality({i \in 1..Len(data) : data[i].go = 0 /\ data[i].full_mov = 0})
NotWithheld == Cardinality({i \in 1..Len(data) : data[i].go = 0 /\ data[i].full_mov # 0})

\* C2: at every trial boundary of the stop-signal session the SSD is
\* ssd_init + ssd_step * (W - F), W and F the completed stop trials that ended
\* with full_mov false and true; nothing floors or caps it.
C2_Staircase ==
  (entry = "stop_signal" /\ pc # "staircase") =>
     ssd = ssd_init + ssd_step * (Withheld - NotWithheld)

C2_Witness ==
  /\ entry = "stop_signal" /\ pc = "loop"
  /\ NotWithheld = 2 /\ Withheld = 0
  /\ ssd < 0

\* the thresholds as the claims state them, radius r in ticks
BelowStart(r) == r < starting_radius * DeviceRes
InTransit(r) == r >= starting_radius * DeviceRes /\ r * 10 < 9 * hidden_radius * DeviceRes
AtFull(r) == r * 10 >= 9 * hidden_radius * DeviceRes

\* frames committed in this trial before the Go phase
PreGo == frames_run["fixation"] + frames_run["ready"]

\* the scaled radii of the Go frames committed so far in this trial (or call)
GoRadii ==
  IF entry = "stop_signal"
  THEN [i \in 1..frames_run["go"] |-> Radius(dev_log[PreGo + i])]
  ELSE IF site = "go" THEN [i \in 1..Len(dev_log) |-> Radius(dev_log[i])]
  ELSE <<>>

\* the Go phase of this trial (or call) has run all its frames
GoEnded ==
  \/ entry = "stop_signal" /\ pc \in {"post_go", "save", "staircase"}
  \/ entry \in {"adaptation", "unit"} /\ site = "go" /\ pc = "run_phase"
       /\ frameN >= PhaseFrames(go_time)
  \/ entry = "unit" /\ site = "go" /\ ret.op = "run_phase"

\* the flags the Go phase hands back
GoStart == IF entry = "stop_signal" THEN start_mov ELSE tmp_start
GoFull == IF entry = "stop_signal" THEN full_mov ELSE tmp_full

\* C3: at the end of the Go phase start_mov is set exactly if some Go frame
\* had starting_radius <= radius < 0.9 * hidden_radius, and full_mov exactly
\* if some Go frame had radius >= 0.9 * hidden_radius.
C3_FlagsIff ==
  GoEnded =>
    /\ (GoStart = 1) <=> (\E i \in DOMAIN GoRadii : InTransit(GoRadii[i]))
    /\ (GoFull = 1) <=> (\E i \in DOMAIN GoRadii : AtFull(GoRadii[i]))
    /\ GoStart \in {0, 1} /\ GoFull \in {0, 1}
    /\ entry = "unit" /\ ret.op = "run_phase" => ret.val[3] = GoStart /\ ret.val[4] = GoFull

C3_Witness ==
  /\ entry = "stop_signal" /\ pc = "post_go"
  /\ Len(GoRadii) = 2 /\ InTransit(GoRadii[1]) /\ BelowStart(GoRadii[2])
  /\ start_mov = 1 /\ full_mov = 0

\* C4 (stated of the stop-signal session; run_phase evaluates the same way):
\* a Go phase in which the radius is below the starting radius in one
\* frame and at least 0.9 * hidden_radius in a later one ends with start_mov
\* and full_mov both set.
C4_CrossingSetsStart ==
  (entry = "stop_signal" /\ GoEnded /\ \E i, j \in DOMAIN GoRadii : i < j /\ BelowStart(GoRadii[i]) /\ AtFull(GoRadii[j]))
    => (GoStart = 1 /\ GoFull = 1)

\* the positions of the stop-signal trial loop from the flag reset to the
\* staircase update
InTrial == {"fixation", "ready", "go", "post_go", "save", "staircase"}

C5_State ==
  /\ (entry = "stop_signal" /\ pc \in {"fixation", "ready"}) =>
       (start_mov = 0 /\ full_mov = 0)
  /\ (entry = "adaptation" /\ pc \in {"gate", "run_phase"} /\ site # "post_go") =>
       (start_mov = 0 /\ full_mov = 0)
  /\ (pc = "run_phase" /\ (frameN = 0 \/ site # "go")) =>
       (tmp_start = 0 /\ tmp_full = 0)

C5_Step ==
  /\ (entry = "stop_signal" /\ pc = "gate" /\ pc' = "fixation") =>
       (start_mov' = 0 /\ full_mov' = 0)
  /\ (entry = "stop_signal" /\ pc \in InTrial /\ pc' \in InTrial) =>
       (start_mov' >= start_mov /\ full_mov' >= full_mov)
  /\ (entry = "stop_signal" /\ pc \in {"fixation", "ready", "post_go"}) =>
       (start_mov' = start_mov /\ full_mov' = full_mov)
  /\ (entry = "stop_signal" /\ pc = "save" /\ pc' = "staircase") =>
       /\ data'[Len(data')].start_mov = start_mov
       /\ data'[Len(data')].full_mov = full_mov
  /\ (pc = "run_phase" /\ pc' = "run_phase" /\ frameN' = frameN + 1) =>
       /\ tmp_start' >= tmp_start /\ tmp_full' >= tmp_full
       /\ site # "go" => (tmp_start' = tmp_start /\ tmp_full' = tmp_full)
  /\ (entry = "unit" /\ pc = "run_phase" /\ pc' = "idle") =>
       (ret'.val[3] = tmp_start /\ ret'.val[4] = tmp_full)

\* C5: both flags are clear when the phases of a trial begin, whatever the
\* trial before left in them; within a trial a flag that is set stays set, up
\* to and in the row of the trial; frames of the fixation, ready and post-go
\* phases change neither flag.
C5_FlagsMonotonic == []C5_State /\ [][C5_Step]_vars

C5_Witness ==
  /\ entry = "stop_signal" /\ pc = "ready" /\ trial = 1
  /\ data[1].start_mov = 1 /\ data[1].full_mov = 1
  /\ start_mov = 0 /\ full_mov = 0

\* events logged for the running trial index
Logged(e) == \E i \in 1..Len(log) : log[i] = <<e, trial>>

\* C6: within a trial, frames of the fixation run only after the gate polled
\* a radius below the starting radius; frames of a phase run only after the
\* phase before it has run all its frames; no phase runs more than its frames;
\* the ITI and the save come after the four phases.
C6_PhaseOrder ==
  entry \in {"adaptation", "stop_signal"} =>
    /\ \A i \in 1..4 : frames_run[Phases[i]] <= PhaseFrames(SiteDuration(Phases[i]))
    /\ frames_run["fixation"] > 0 => (gate_seen >= 0 /\ BelowStart(gate_seen))
    /\ \A i, j \in 1..4 :
         (i < j /\ frames_run[Phases[j]] > 0) =>
            frames_run[Phases[i]] = PhaseFrames(SiteDuration(Phases[i]))
    /\ (pc \in {"save", "staircase"} \/ Logged("iti")) =>
         \A i \in 1..4 : frames_run[Phases[i]] = PhaseFrames(SiteDuration(Phases[i]))
    /\ Logged("save") => Logged("iti")
    /\ pc \in {"fixation", "ready", "go", "post_go"} =>
         (frames_run[pc] = frameN /\ \A i \in 1..4 : Phases[i] # pc =>
             frames_run[Phases[i]] \in {0, PhaseFrames(SiteDuration(Phases[i]))})

C6_Witness ==
  /\ entry = "stop_signal" /\ pc = "save" /\ trial = 1
  /\ gate_wait = 1
  /\ \A i \in 1..4 : frames_run[Phases[i]] = PhaseFrames(SiteDuration(Phases[i]))

\* the session has stopped running
Ended == pc \in {"done", "crashed"}

\* C7: in the adaptation session every trial that was started has, once the
\* session has ended, handed its row and trace to persistence: the result of
\* run_phase is accepted at each call site and no trial stops on the way.
C7_TrialReachesPersistence ==
  (entry = "adaptation" /\ Ended) =>
     \A i \in 1..Len(log) :
        log[i][1] = "trial" => \E j \in 1..Len(log) : log[j] = <<"save", log[i][2]>>

\* flags a Go phase gives for a sequence of readings, from the radii alone
FlagOf(readings, Zone(_)) ==
  IF \E i \in 1..Len(readings) : Zone(Radius(readings[i])) THEN 1 ELSE 0

\* what run_phase has collected, as a function of the device readings alone
SamplesX == [i \in 1..Len(dev_log) |-> dev_log[i][1]]
SamplesY == [i \in 1..Len(dev_log) |-> dev_log[i][2]]
StartFromReadings == IF site = "go" THEN FlagOf(dev_log, InTransit) ELSE 0
FullFromReadings == IF site = "go" THEN FlagOf(dev_log, AtFull) ELSE 0

\* the last reading, scaled and turned by the perturbation
Turned(p, pert) ==
  <<(cart2pol(Scaled(p))[1] + pert) % 6, cart2pol(Scaled(p))[2]>>

\* C8: in run_phase the samples, their number and the flags are fixed by the
\* device readings alone, the same under every perturbation; the perturbation
\* turns the displayed cursor only, and the radius is the unperturbed one.
C8_PerturbationDisplayOnly ==
  /\ (entry \in {"adaptation", "unit"} /\ pc = "run_phase") =>
       /\ Len(dev_log) = frameN
       /\ x_tmp = SamplesX /\ y_tmp = SamplesY
       /\ tmp_start = StartFromReadings /\ tmp_full = FullFromReadings
       /\ frameN > 0 => cart2pol(cursor_pos) = Turned(dev_log[frameN], perturbation)
  /\ (entry = "unit" /\ ret.op = "run_phase") =>
       /\ ret.val[1] = SamplesX /\ ret.val[2] = SamplesY
       /\ ret.val[3] = StartFromReadings /\ ret.val[4] = FullFromReadings

C8_Witness ==
  /\ entry = "unit" /\ ret.op = "run_phase" /\ site = "go"
  /\ perturbation = PERTURBATION_ANGLE
  /\ ret.val[1] = <<1, 0>> /\ ret.val[2] = <<0, 18>>
  /\ ret.val[3] = 0 /\ ret.val[4] = 1
  /\ cursor_pos # Scaled(dev_log[2])

\* C9: on a stop trial the target shows the stop colour from exactly one Go
\* frame on, the frame int(framerate_r * ssd), to the end of the Go phase; on
\* a go trial it never shows it.
C9_StopCueOnce ==
  (entry = "stop_signal" /\ pc \in {"post_go", "save", "staircase"}) =>
     IF Label = 0
     THEN \E k \in 1..Len(go_display) :
            /\ k - 1 = StopFrame(ssd)
            /\ \A i \in 1..Len(go_display) : (go_display[i] = "red") <=> (i >= k)
     ELSE \A i \in 1..Len(go_display) : go_display[i] # "red"

\* the trial indices logged with event e, in the order logged
Events(e) == SelectSeq(log, LAMBDA ev : ev[1] = e)

\* C10: a session that has ended polled the abort once for each index
\* 0, 1, ... in turn, ran a trial after every poll but an aborting one,
\* ran all Ntrial trials if no poll aborted, and ended with the teardown.
C10_SessionLoop ==
  (entry \in {"adaptation", "stop_signal"} /\ Ended) =>
     LET checks == Events("check")
         trials == Events("trial")
     IN  /\ \A i \in 1..Len(checks) : checks[i][2] = i - 1
         /\ \A i \in 1..Len(trials) : trials[i][2] = i - 1
         /\ Len(trials) \in {Len(checks), Len(checks) - 1}
         /\ Len(trials) = Len(checks) => Len(trials) = Ntrial
         /\ Len(Events("save")) = Len(trials)
         /\ Len(log) > 0 /\ log[Len(log)][1] = "teardown"
         /\ Len(trials) < Len(checks) => log[Len(log) - 1] = checks[Len(checks)]

\* (C10 of the stop-signal session alone)
C10_StopSignalLoop == entry = "stop_signal" => C10_SessionLoop

\* the positions of a session before the write of the running trial index
BeforeWrite ==
  {"loop", "gate", "fixation", "ready", "go", "post_go", "run_phase", "save",
   "teardown", "done", "crashed"}

C11_State ==
  entry \in {"adaptation", "stop_signal"} =>
    /\ \A i \in 1..Len(csv_rows) : csv_rows[i].trial = i - 1
    /\ DOMAIN joy_files = 0..(Len(csv_rows) - 1)
    /\ Len(csv_rows) = IF pc \in BeforeWrite THEN trial ELSE trial + 1

C11_Step ==
  /\ Len(csv_rows') \in {Len(csv_rows), Len(csv_rows) + 1}
  /\ \A i \in 1..Len(csv_rows) : csv_rows'[i] = csv_rows[i]
  /\ \A t \in DOMAIN joy_files : t \in DOMAIN joy_files' /\ joy_files'[t] = joy_files[t]
  /\ Len(csv_rows') = Len(csv_rows) + 1 =>
       (csv_rows'[Len(csv_rows')].trial = trial /\ trial' = trial)

\* C11: the table file and the trace file of trial N are written before the
\* abort check, the gate and the phases of trial N+1; after the write of trial
\* k the table file holds one row for each index 0..k, in order, and one
\* trace file exists for each; a write leaves the rows and traces of earlier
\* trials as they were.  A session aborted at index a therefore ends with the
\* rows and traces of trials 0..a-1.
C11_PersistencePerTrial == []C11_State /\ [][C11_Step]_vars

C11_Witness ==
  /\ entry = "stop_signal" /\ pc = "done"
  /\ trial = 2 /\ trial < Ntrial
  /\ log[Len(log) - 1] = <<"check", 2>>
  /\ Len(csv_rows) = 2 /\ DOMAIN joy_files = {0, 1}

\* round(f * d) for the frame rate and a duration in ms, halves rounded up
RoundFrames(duration) == (2 * FrameRate * duration + 1000) \div 2000

\* the phases of the running trial whose loops have been left
PhasesLeft ==
  IF entry = "stop_signal"
  THEN CASE pc = "ready" -> {"fixation"}
         [] pc = "go" -> {"fixation", "ready"}
         [] pc = "post_go" -> {"fixation", "ready", "go"}
         [] pc \in {"save", "staircase"} -> PhaseNames
         [] OTHER -> {}
  ELSE IF pc = "run_phase" /\ frameN >= PhaseFrames(SiteDuration(site)) THEN {site}
  ELSE IF entry = "unit" /\ ret.op = "run_phase" THEN {site}
  ELSE {}

\* C12: a phase runs exactly round(f * d) iterations, one device sample and
\* one committed frame each, in the four phases of both programs, also where
\* f * d is no whole number.
C12_RoundIterations ==
  /\ \A ph \in PhasesLeft : frames_run[ph] = RoundFrames(SiteDuration(ph))
  /\ pc \in {"fixation", "ready", "go", "post_go", "save", "run_phase"} =>
       Len(dev_log) = frames_run["fixation"] + frames_run["ready"]
                        + frames_run["go"] + frames_run["post_go"]

\* the configured phase times together, in ms
ConfiguredSum == fix_time + ready_time + go_time + post_go_time

\* the four durations of a row together, in frame periods
DurSum(row) == row.fix_dur + row.ready_dur + row.go_dur + row.post_go_dur

\* C13: with the clock counting frame periods, every row has fix_dur,
\* ready_dur, go_dur and post_go_dur equal to the differences of successive
\* onsets (fixation, ready, go, post-go, ITI), and their sum is within one frame
\* period of frame rate * (fix_time + ready_time + go_time + post_go_time).
C13_DurationsSum ==
  /\ (entry = "stop_signal" /\ pc = "staircase") =>
       LET row == data[Len(data)]
       IN  /\ row.fix_dur = onset["ready"] - onset["fixation"]
           /\ row.ready_dur = onset["go"] - onset["ready"]
           /\ row.go_dur = onset["post_go"] - onset["go"]
           /\ row.post_go_dur = onset["iti"] - onset["post_go"]
  /\ \A i \in 1..Len(data) :
       /\ 1000 * DurSum(data[i]) - FrameRate * ConfiguredSum <= 1000
       /\ FrameRate * ConfiguredSum - 1000 * DurSum(data[i]) <= 1000

\* the perturbation the claim gives trial t: the fixed angle in the adaptation
\* phase, none otherwise
ClaimedPerturbation(t) ==
  IF determine_experiment_phase(t) = "ADAPTATION" THEN PERTURBATION_ANGLE ELSE 0

\* C14: in the adaptation session the perturbation of trial t is the fixed
\* angle exactly if determine_experiment_phase(t) is ADAPTATION and 0
\* otherwise; that value is the one its four phases run with and the one its
\* row holds as cursor_displacement.
C14_PerturbationPerTrial ==
  entry = "adaptation" =>
    /\ pc \in {"gate", "run_phase", "crashed"} => perturbation = ClaimedPerturbation(trial)
    /\ Ended =>
         \A i \in 1..Len(log) :
            log[i][1] = "trial" =>
               \E j \in 1..Len(data) :
                  /\ data[j].trial = log[i][2]
                  /\ data[j].cursor_displacement = ClaimedPerturbation(log[i][2])

\* C15: for boundaries noPert < adaptStart <= adaptEnd the rule gives
\* AFTER_EFFECT for every t with noPert <= t < adaptStart, ADAPTATION for
\* t = adaptStart, and NO_PERTURBATION only for t < noPert; for
\* noPert = adaptStart it gives AFTER_EFFECT for no t before adaptEnd.
C15_BoundaryGap ==
  ret.op = "PhaseRule" =>
    LET t == ret.arg[1]
        noPert == ret.arg[2]
        adaptStart == ret.arg[3]
        adaptEnd == ret.arg[4]
        phase == ret.val[1]
    IN  /\ (noPert < adaptStart /\ adaptStart <= adaptEnd) =>
             /\ (noPert <= t /\ t < adaptStart) => phase = "AFTER_EFFECT"
             /\ t = adaptStart => phase = "ADAPTATION"
             /\ phase = "NO_PERTURBATION" => t < noPert
        /\ (noPert = adaptStart /\ t < adaptEnd) => phase # "AFTER_EFFECT"
        /\ Untouched

C15_Witness ==
  /\ ret.op = "PhaseRule"
  /\ ret.arg[2] < ret.arg[1] /\ ret.arg[1] < ret.arg[3] /\ ret.arg[3] <= ret.arg[4]
  /\ ret.val = <<"AFTER_EFFECT">>

\* the Go frames of the running trial that showed the stop colour
RedFrames == {i \in 1..Len(go_display) : go_display[i] = "red"}

C16_State ==
  entry = "stop_signal" =>
    /\ \A i, j \in 1..Len(Events("staircase")) :
          /\ go_list[Events("staircase")[i][2] + 1] = 0
          /\ i # j => Events("staircase")[i] # Events("staircase")[j]
    /\ (pc = "staircase" /\ RedFrames # {}) =>
          \A i \in RedFrames : i - 1 >= StopFrame(data[Len(data)].SSD)
    /\ (pc = "staircase" /\ RedFrames # {}) =>
          StopFrame(data[Len(data)].SSD) + 1 \in RedFrames

C16_Step ==
  /\ ssd' # ssd =>
       /\ entry = "stop_signal" /\ pc = "staircase" /\ Label = 0
       /\ ssd' \in {ssd - ssd_step, ssd + ssd_step}
       /\ \A i \in 1..4 : frames_run[Phases[i]] = PhaseFrames(SiteDuration(Phases[i]))
       /\ Len(data) = trial + 1 /\ data[Len(data)].trial = trial
       /\ data[Len(data)].SSD = ssd
  /\ (entry = "stop_signal" /\ pc = "staircase" /\ pc' = "loop") =>
       (ssd' # ssd) = (Label = 0)
  /\ (entry = "stop_signal" /\ pc = "save" /\ pc' = "staircase") =>
       data'[Len(data')].SSD = ssd

\* C16: in the stop-signal session the SSD changes only in the staircase
\* update, once per stop trial, after the Go and post-go phases and after
\* the row of the trial; a go trial leaves it as it is and a stop trial moves
\* it by exactly one step; the row holds the SSD that placed the stop cue in
\* the Go phase of the same trial, not the updated one.
C16_StaircaseOnly == []C16_State /\ [][C16_Step]_vars

C16_Witness ==
  /\ entry = "stop_signal" /\ pc = "loop" /\ trial = 1
  /\ go_display = <<"green", "red">>
  /\ data[1].go = 0 /\ data[1].SSD = ssd_init
  /\ ssd = ssd_init - ssd_step

\* C17: in the stop-signal session the stop cue changes the appearance of the
\* target only.  After every Go frame, before and after the cue, the trace
\* and the flags are functions of the device readings alone, the same for a
\* stop trial and a go trial and for every SSD; the Go phase of either runs the
\* same number of frames.
C17_StopCueAppearanceOnly ==
  (entry = "stop_signal" /\ pc \in {"go", "post_go", "save", "staircase"}) =>
    /\ x_trial = SamplesX /\ y_trial = SamplesY
    /\ Len(GoRadii) = frames_run["go"]
    /\ Len(dev_log) = PreGo + frames_run["go"] + frames_run["post_go"]
    /\ start_mov = (IF \E i \in DOMAIN GoRadii : InTransit(GoRadii[i]) THEN 1 ELSE 0)
    /\ full_mov = (IF \E i \in DOMAIN GoRadii : AtFull(GoRadii[i]) THEN 1 ELSE 0)
    /\ pc # "go" => frames_run["go"] = PhaseFrames(go_time)

C17_Witness ==
  /\ entry = "stop_signal" /\ pc = "post_go"
  /\ Label = 0
  /\ go_display = <<"red", "red">>
  /\ BelowStart(GoRadii[1]) /\ AtFull(GoRadii[2])
  /\ start_mov = 0 /\ full_mov = 1

\* a Go frame of the running trial (or call) is the frame committed last
GoFrameShown ==
  \/ entry = "stop_signal" /\ pc = "go" /\ frameN > 0
  \/ entry \in {"adaptation", "unit"} /\ pc = "run_phase" /\ site = "go" /\ frameN > 0

\* the scaled radius of the reading taken last
LastRadius == Radius(dev_log[Len(dev_log)])

\* C18: in every Go frame of both programs the cursor is drawn exactly if
\* the radius is below the starting radius or at least 0.9 * hidden_radius,
\* hence in no frame of the transitional zone; the target is drawn in every
\* Go frame.
C18_CursorOutsideTransit ==
  GoFrameShown =>
    /\ ("cursor" \in drawn) <=> (BelowStart(LastRadius) \/ AtFull(LastRadius))
    /\ InTransit(LastRadius) => "cursor" \notin drawn
    /\ "target" \in drawn

C18_Witness ==
  /\ entry = "unit" /\ pc = "run_phase" /\ site = "go" /\ frameN = 2
  /\ AtFull(Radius(dev_log[1])) /\ InTransit(Radius(dev_log[2]))
  /\ drawn = {"target"}

\* the frames the four phases of the running trial have committed
TrialFrames ==
  frames_run["fixation"] + frames_run["ready"] + frames_run["go"] + frames_run["post_go"]

\* the phase whose loop took sample i of the trace, by the frame counts
PhaseOfSample(i) ==
  IF i <= frames_run["fixation"] THEN "fixation"
  ELSE IF i <= PreGo THEN "ready"
  ELSE IF i <= PreGo + frames_run["go"] THEN "go"
  ELSE "post_go"

\* the onset that follows the onset of phase ph
OnsetAfter(ph) ==
  CASE ph = "fixation" -> onset["ready"]
    [] ph = "ready" -> onset["go"]
    [] ph = "go" -> onset["post_go"]
    [] OTHER -> onset["iti"]

\* C19: the trace handed to persistence is the samples of the trial's
\* fixation, ready, Go and post-go frames in that order and nothing else: as
\* long as the four frame counts together, with equally long x, y and
\* timestamp rows, the readings in the order taken, each timestamp between the
\* onset of its phase and the next onset, and the timestamps strictly
\* increasing; the trace file is as long.
C19_TraceConcatenation ==
  /\ (entry = "stop_signal" /\ pc \in {"save", "staircase"}) =>
       /\ Len(x_trial) = TrialFrames
       /\ Len(y_trial) = Len(x_trial) /\ Len(t_trial) = Len(x_trial)
       /\ x_trial = SamplesX /\ y_trial = SamplesY
       /\ \A i \in 1..Len(t_trial) :
            /\ onset[PhaseOfSample(i)] <= t_trial[i]
            /\ t_trial[i] < OnsetAfter(PhaseOfSample(i))
       /\ \A i \in 1..(Len(t_trial) - 1) : t_trial[i] < t_trial[i + 1]
  /\ (entry = "stop_signal" /\ pc = "staircase") => joy_files[trial] = Len(x_trial)
  /\ \A t \in DOMAIN joy_files :
       joy_files[t] = PhaseFrames(fix_time) + PhaseFrames(ready_time)
                        + PhaseFrames(go_time) + PhaseFrames(post_go_time)

C19_Witness ==
  /\ entry = "stop_signal" /\ pc = "save" /\ trial = 1
  /\ gate_wait = 1
  /\ joy_files[0] = Len(t_trial)
  /\ t_trial[1] = onset["fixation"]
  /\ x_trial[Len(x_trial)] # x_trial[1]

\* the trial indices whose staircase update changed the SSD
Updated == {Events("staircase")[i][2] : i \in 1..Len(Events("staircase"))}

C20_State ==
  entry = "stop_signal" =>
    /\ Len(go_list) = Ntrial
    /\ Cardinality({i \in 1..Len(go_list) : go_list[i] = 0}) = stop_trial
    /\ Cardinality({i \in 1..Len(go_list) : go_list[i] = 1}) = Ntrial - stop_trial
    /\ \A i \in 1..Len(data) : data[i].go = go_list[data[i].trial + 1]
    /\ (pc \in {"go", "post_go", "save", "staircase"} /\ RedFrames # {}) =>
          go_list[trial + 1] = 0
    /\ Updated = {t \in 0..(trial - 1) : go_list[t + 1] = 0}
    /\ Len(Events("staircase")) = Cardinality(Updated)
    /\ (pc = "done" /\ trial = Ntrial) => Len(Events("staircase")) = stop_trial

C20_Step == go_list' = go_list

\* C20: in the stop-signal session the label list has Ntrial entries,
\* stop_trial of them 0 and the others 1, whatever the shuffle; it never
\* changes, so the Go phase, the row and the staircase update of a trial read
\* the same label; a session that runs all its trials makes exactly stop_trial
\* staircase updates.
C20_LabelList == []C20_State /\ [][C20_Step]_vars

C20_Witness ==
  /\ entry = "stop_signal" /\ pc = "done" /\ trial = Ntrial
  /\ go_list = <<0, 1, 0>>
  /\ Updated = {0, 2}
  /\ data[1].go = 0 /\ data[2].go = 1 /\ data[3].go = 0

\* a step that leaves the session loop for the teardown
ToTeardown == pc # "teardown" /\ pc' = "teardown"

\* a step of a gate or of a phase (not of the loop head) taken while a key
\* press waits in the buffer
C21_Step ==
  /\ ToTeardown => (pc = "loop" /\ (keys \/ trial >= Ntrial))
  /\ (pc = "loop" /\ keys /\ trial < Ntrial) => pc' \in {"loop", "teardown"}
  /\ (entry # "unit" /\ keys /\ pc \notin {"loop", "teardown"}) => (keys' /\ trial' >= trial)

\* C21: termination.  With every gate left in the end, every session of
\* either program reaches the teardown (win.close(), core.quit()), after
\* Ntrial trials or after an abort seen at a trial boundary; a key pressed
\* while a gate waits or a phase runs is not read before the next loop head.
C21_Termination ==
  /\ [][C21_Step]_vars
  /\ (entry \in {"adaptation", "stop_signal"}) ~> (pc = "done")

\* how often direction d occurs in a list of target angles
DirectionCount(list, d) == Cardinality({i \in DOMAIN list : list[i] = d})

\* C22: the shuffled list of target angles built for n trials has an entry at
\* every trial index 0..n-1 (its length is n), and each of the five directions
\* occurs in it the same number of times.
C22_AngleForEveryTrial ==
  ret.op = "generate_angle_list" =>
    /\ Len(ret.val) = ret.arg
    /\ \A t \in 0..(ret.arg - 1) : (t + 1) \in DOMAIN ret.val
    /\ \A d \in 0..(NDirections - 1) :
         DirectionCount(ret.val, d) = DirectionCount(ret.val, 0)

\* the go appearance: green, at the hidden radius
GoTarget == [fillColor |-> "green", lineColor |-> "green", pos |-> "hidden"]

\* the stop-signal session is in the fixation, the post-go phase or the ITI
InNeutralPhase == entry = "stop_signal" /\ pc \in {"fixation", "post_go", "save", "staircase"}

\* C23 as stated: in the stop-signal session the first frame of every Go
\* phase shows the target green, and during every fixation, post-go phase and
\* ITI the target is neutral (no fill, white line) at the origin.
C23_GreenAtFirstGoFrame ==
  /\ (entry = "stop_signal" /\ pc \in {"go", "post_go", "save", "staircase"}
        /\ Len(go_display) >= 1) => go_display[1] = "green"
  /\ InNeutralPhase => target = InitTarget

\* C23 as amended: in the stop-signal session the stop appearance never
\* carries over between trials.  The Go phase begins with the target green at
\* the hidden radius, also after a stop trial whose cue was shown; its first
\* frame shows the target green unless the trial is a stop trial with
\* int(framerate * SSD) = 0, whose stop cue falls on that frame; and during
\* every fixation, post-go phase and ITI the target is neutral at the origin.
C23_NoCarryOver ==
  /\ (entry = "stop_signal" /\ pc = "go" /\ frameN = 0) => target = GoTarget
  /\ (entry = "stop_signal" /\ pc \in {"go", "post_go", "save", "staircase"}
        /\ Len(go_display) >= 1) =>
       go_display[1] = (IF Label = 0 /\ StopFrame(ssd) = 0 THEN "red" ELSE "green")
  /\ InNeutralPhase => target = InitTarget

C23_Witness ==
  /\ entry = "stop_signal" /\ trial = 1 /\ pc = "go" /\ frameN = 1
  /\ data[1].go = 0 /\ StopFrame(data[1].SSD) < PhaseFrames(go_time)
  /\ go_display = <<"green">>
  /\ target = GoTarget

====
